---- MODULE Spec2Model ----
(***************************************************************************)
(* Model of the cellseg3d-figures scripts:                                 *)
(*   cellpose_repro/train_on_splits.py  convert_2d, the train/validation   *)
(*                                      split and the training invocation  *)
(*   plots.py                           the metric sweep and the plotting  *)
(*                                      functions with their style context *)
(* Python sequences are TLA+ sequences (1-based); a Python index j is the  *)
(* TLA+ index j + 1.  An optional value (None or a value) is the empty     *)
(* sequence or a one-element sequence.  A path is a sequence of            *)
(* one-character strings.                                                  *)
(***************************************************************************)
EXTENDS Integers, Sequences, FiniteSets, TLC

VARIABLES
    \* ---- train_on_splits.py, __main__ ----
    pc, X_paths, Y_paths, X, Y,
    X_2d, X_paths_2d, Y_2d, Y_paths_2d,
    ind_train, ind_val, X_trn, Y_trn, X_val, Y_val, X_trn_paths, X_val_paths,
    train_calls, artifacts, stdout,
    \* ---- convert_2d called on its own ----
    images_array, images_names, dtype, converted,
    \* ---- the split rule applied to an index range and a fraction ----
    ind, fraction, split_out,
    \* ---- plots.py ----
    palette, background, call, outcome, returned, marker

scriptVars == <<pc, X_paths, Y_paths, X, Y, X_2d, X_paths_2d, Y_2d, Y_paths_2d,
                ind_train, ind_val, X_trn, Y_trn, X_val, Y_val, X_trn_paths,
                X_val_paths, train_calls, artifacts, stdout>>
convertVars == <<images_array, images_names, dtype, converted>>
splitVars == <<ind, fraction, split_out>>
plotVars == <<palette, background, call, outcome, returned, marker>>
vars == <<scriptVars, convertVars, splitVars, plotVars>>
\* what each program leaves alone: the state of the other programs
notScript == <<convertVars, splitVars, plotVars>>
notConvert == <<scriptVars, splitVars, plotVars>>
notSplit == <<scriptVars, convertVars, plotVars>>
notPlot == <<scriptVars, convertVars, splitVars>>

-----------------------------------------------------------------------------
(* Bounds of the model *)

\* most volumes in one input sequence
MaxVols == 2
\* most slices in an ordinary volume
MaxSlices == 3
\* slice count of a deep volume (slice indices of two decimal digits)
DeepSlices == 11
\* longest index range handed to the split rule on its own
MaxLen == 12
\* most thresholds in a sweep given explicitly, most records of one model
MaxSweep == 2
\* pixels of the prediction map and of the ground truth
NPix == 2
\* most models in one comparison plot
MaxModels == 2

-----------------------------------------------------------------------------
(* Python built-ins used by the scripts *)

None == <<>>
Some(v) == <<v>>

Max(a, b) == IF a >= b THEN a ELSE b
Min(a, b) == IF a <= b THEN a ELSE b

\* round(num/den) for num >= 0, den > 0: Python 3 rounds halves to even
PyRound(num, den) ==
    LET q == num \div den
        r == num % den
    IN  IF 2 * r < den THEN q
        ELSE IF 2 * r > den THEN q + 1
        ELSE IF q % 2 = 0 THEN q ELSE q + 1

\* a slice bound as Python normalises it: negative counts from the end, then clamped
PyBound(i, n) == IF i < 0 THEN Max(n + i, 0) ELSE Min(i, n)
\* s[:stop]
SliceTo(s, stop) == SubSeq(s, 1, PyBound(stop, Len(s)))
\* s[start:]
SliceFrom(s, start) == SubSeq(s, PyBound(start, Len(s)) + 1, Len(s))

\* range(n) as the sequence 0, 1, ..., n-1
Range(n) == [k \in 1..n |-> k - 1]

\* str.rfind of one character: the last Python index holding c, or -1
RECURSIVE RFind(_, _)
RFind(s, c) ==
    IF s = <<>> THEN -1
    ELSE IF s[Len(s)] = c THEN Len(s) - 1
    ELSE RFind(SubSeq(s, 1, Len(s) - 1), c)

\* pathlib: the final component of a path
PathName(p) == SubSeq(p, RFind(p, "/") + 2, Len(p))
\* pathlib: the final component without its last suffix
PathStem(p) ==
    LET name == PathName(p)
        i == RFind(name, ".")
    IN  IF 0 < i /\ i < Len(name) - 1 THEN SubSeq(name, 1, i) ELSE name

Digit(d) == <<"0", "1", "2", "3", "4", "5", "6", "7", "8", "9">>[d + 1]
\* the decimal text of n >= 0, as an f-string prints it
RECURSIVE IntStr(_)
IntStr(n) == IF n < 10 THEN <<Digit(n)>> ELSE IntStr(n \div 10) \o <<Digit(n % 10)>>

\* numpy astype on one element: np.float32 keeps 24 significant bits (ties to
\* even; exact here for |v| < 2^25), np.uint16 wraps an integer modulo 2^16
AsTypeValue(v, dt) ==
    IF dt = "uint16" THEN v % 65536
    ELSE LET a == IF v < 0 THEN -v ELSE v
             r == IF a <= 16777216 THEN a
                  ELSE IF a % 2 = 0 THEN a
                  ELSE IF ((a - 1) \div 2) % 2 = 0 THEN a - 1 ELSE a + 1
         IN  IF v < 0 THEN -r ELSE r
\* slice_.astype(dtype): element-wise on a 2-D array (here a row of pixels)
AsType(slice, dt) == [p \in 1..Len(slice) |-> AsTypeValue(slice[p], dt)]

-----------------------------------------------------------------------------
(* train_on_splits.py *)

\* VAL_PERCENT = 0.8, as numerator and denominator
VAL_PERCENT == <<8, 10>>
SAVE_NAME == "c1245_v_2080.cellpose"

\* convert_2d's inner loop with the slice index of the name counted from 1
RECURSIVE Convert2dSlices_OneBased(_, _, _, _, _, _)
Convert2dSlices_OneBased(image, names, i, dt, j, acc) ==
    IF j >= Len(image) THEN acc
    ELSE Convert2dSlices_OneBased(image, names, i, dt, j + 1,
            [images_2d |-> Append(acc.images_2d, AsType(image[j + 1], dt)),
             images_names_2d |->
                IF names # None
                THEN Some(Append(acc.images_names_2d[1],
                        PathStem(names[1][i + 1]) \o <<"_">> \o IntStr(j + 1)
                            \o <<".", "t", "i", "f">>))
                ELSE acc.images_names_2d])

\* convert_2d's inner loop without the cast
RECURSIVE Convert2dSlices_NoCast(_, _, _, _, _, _)
Convert2dSlices_NoCast(image, names, i, dt, j, acc) ==
    IF j >= Len(image) THEN acc
    ELSE Convert2dSlices_NoCast(image, names, i, dt, j + 1,
            [images_2d |-> Append(acc.images_2d, image[j + 1]),
             images_names_2d |->
                IF names # None
                THEN Some(Append(acc.images_names_2d[1],
                        PathStem(names[1][i + 1]) \o <<"_">> \o IntStr(j)
                            \o <<".", "t", "i", "f">>))
                ELSE acc.images_names_2d])

\* convert_2d's inner loop leaving after the first slice of the image
Convert2dSlices_FirstOnly(image, names, i, dt, j, acc) ==
    IF j >= Len(image) THEN acc
    ELSE [images_2d |-> Append(acc.images_2d, AsType(image[j + 1], dt)),
          images_names_2d |->
             IF names # None
             THEN Some(Append(acc.images_names_2d[1],
                     PathStem(names[1][i + 1]) \o <<"_">> \o IntStr(j)
                         \o <<".", "t", "i", "f">>))
             ELSE acc.images_names_2d]

\* the inner loop of convert_2d over the slices j, j+1, ... of image i
\* (Python indices), appending to the two output lists
RECURSIVE Convert2dSlices(_, _, _, _, _, _)
Convert2dSlices(image, names, i, dt, j, acc) ==
    IF j >= Len(image) THEN acc
    ELSE Convert2dSlices(image, names, i, dt, j + 1,
            [images_2d |-> Append(acc.images_2d, AsType(image[j + 1], dt)),
             images_names_2d |->
                IF names # None
                THEN Some(Append(acc.images_names_2d[1],
                        PathStem(names[1][i + 1]) \o <<"_">> \o IntStr(j)
                            \o <<".", "t", "i", "f">>))
                ELSE acc.images_names_2d])

\* convert_2d's outer loop naming every slice after the first identifier
RECURSIVE Convert2dImages_FirstName(_, _, _, _, _)
Convert2dImages_FirstName(array, names, dt, i, acc) ==
    IF i >= Len(array) THEN acc
    ELSE Convert2dImages_FirstName(array, names, dt, i + 1,
            Convert2dSlices(array[i + 1], names, 0, dt, 0, acc))

\* the outer loop of convert_2d over the images i, i+1, ...
RECURSIVE Convert2dImages(_, _, _, _, _)
Convert2dImages(array, names, dt, i, acc) ==
    IF i >= Len(array) THEN acc
    ELSE Convert2dImages(array, names, dt, i + 1,
            Convert2dSlices(array[i + 1], names, i, dt, 0, acc))

\* convert_2d(images_array, images_names, dtype) -> (images_2d, images_names_2d)
convert_2d(array, names, dt) ==
    Convert2dImages(array, names, dt, 0,
        [images_2d |-> <<>>,
         images_names_2d |-> IF names # None THEN Some(<<>>) ELSE None])

\* n_val without the floor of one element
NVal_NoMax(r, frac) == PyRound(frac[1] * Len(r), frac[2])
\* n_val rounded up instead of to the nearest integer
NVal_Ceil(r, frac) == Max(1, (frac[1] * Len(r) + frac[2] - 1) \div frac[2])

\* n_val = max(1, int(round(fraction * len(ind))))
NVal(r, frac) == Max(1, PyRound(frac[1] * Len(r), frac[2]))
\* ind_train, ind_val = ind[:-n_val], ind[-n_val:]
SplitIndices(r, frac) ==
    LET n_val == NVal(r, frac)
    IN  [ind_train |-> SliceTo(r, -n_val), ind_val |-> SliceFrom(r, -n_val)]
\* [seq[i] for i in indices]
Pick(seq, indices) == [k \in 1..Len(indices) |-> seq[indices[k] + 1]]

\* a sorted(glob(...)) result lists distinct paths in increasing string order:
\* the paths the image directory may hold, in that order
ImagePool ==
    << <<"d", "/", "a", ".", "t", "i", "f">>,
       <<"d", "/", "b", ".", "c", ".", "t", "i", "f">>,
       <<"d", "/", "e", "_", "1", ".", "t", "i", "f">>,
       <<"d", "/", "f", ".", "t", "i", "f">> >>
\* the paths the labels/ subdirectory may hold, in increasing string order
LabelPool ==
    << <<"d", "/", "l", "/", "a", ".", "t", "i", "f">>,
       <<"d", "/", "l", "/", "b", ".", "c", ".", "t", "i", "f">>,
       <<"d", "/", "l", "/", "e", "_", "1", ".", "t", "i", "f">>,
       <<"d", "/", "l", "/", "f", ".", "t", "i", "f">> >>

\* the increasing index sequences of length n into a pool of m paths
IncreasingSeqs(n, m) ==
    {s \in [1..n -> 1..m] : \A a, b \in 1..n : a < b => s[a] < s[b]}

\* pixel values that the casts change: above 2^24, above 2^16, negative
StressValues == <<0, 16777217, 65541, -1>>
\* what imread returns for volume i with n slices: every slice is a row of
\* two pixels, the first one unique to (volume, slice)
Tag(i, j) == 100 * i + j
Volume(i, n) ==
    [j \in 1..n |-> <<Tag(i - 1, j - 1), StressValues[((i + j) % 4) + 1]>>]
\* list(map(imread, paths)) for volumes of the given slice counts
Volumes(counts) == [i \in 1..Len(counts) |-> Volume(i, counts[i])]

\* the state before line 41: the paths globbed and the volumes read
ScriptInit ==
    /\ pc = "convert"
    /\ \E n \in 0..MaxVols :
         /\ \E s \in IncreasingSeqs(n, Len(ImagePool)) :
              X_paths = [k \in 1..n |-> ImagePool[s[k]]]
         /\ \E c \in [1..n -> 1..MaxSlices] : X = Volumes(c)
    /\ \E n \in 0..MaxVols :
         /\ Y_paths = SubSeq(LabelPool, 1, n)
         /\ \E c \in [1..n -> 1..MaxSlices] : Y = Volumes(c)
    /\ X_2d = <<>> /\ X_paths_2d = None
    /\ Y_2d = <<>> /\ Y_paths_2d = None
    /\ ind_train = <<>> /\ ind_val = <<>>
    /\ X_trn = <<>> /\ Y_trn = <<>> /\ X_val = <<>> /\ Y_val = <<>>
    /\ X_trn_paths = <<>> /\ X_val_paths = <<>>
    /\ train_calls = <<>> /\ artifacts = {} /\ stdout = <<>>

splitResultVars == <<ind_train, ind_val, X_trn, Y_trn, X_val, Y_val,
                     X_trn_paths, X_val_paths>>

\* lines 41-44: both conversions, then the two counts are printed
Convert ==
    /\ pc = "convert"
    /\ LET cx == convert_2d(X, Some(X_paths), "float32")
           cy == convert_2d(Y, Some(Y_paths), "uint16")
       IN  /\ X_2d' = cx.images_2d
           /\ X_paths_2d' = cx.images_names_2d
           /\ Y_2d' = cy.images_2d
           /\ Y_paths_2d' = cy.images_names_2d
           /\ stdout' = stdout \o << <<"len", Len(cx.images_2d)>>,
                                     <<"len", Len(cy.images_2d)>> >>
    /\ pc' = "assert"
    /\ UNCHANGED <<X_paths, Y_paths, X, Y, splitResultVars, train_calls, artifacts, notScript>>

\* line 45, the assertion holds
AssertPass ==
    /\ pc = "assert"
    /\ Len(X_2d) = Len(Y_2d)
    /\ pc' = "split"
    /\ UNCHANGED <<X_paths, Y_paths, X, Y, X_2d, X_paths_2d, Y_2d, Y_paths_2d,
                   splitResultVars, train_calls, artifacts, stdout, notScript>>

\* line 45 with the assertion switched off: a mismatch goes on to train
AssertFail_Ignored ==
    /\ pc = "assert"
    /\ ~(Len(X_2d) = Len(Y_2d))
    /\ pc' = "train"
    /\ UNCHANGED <<X_paths, Y_paths, X, Y, X_2d, X_paths_2d, Y_2d, Y_paths_2d,
                   splitResultVars, train_calls, artifacts, stdout, notScript>>

\* line 45, the assertion fails: AssertionError ends the run
AssertFail ==
    /\ pc = "assert"
    /\ ~(Len(X_2d) = Len(Y_2d))
    /\ pc' = "halted"
    /\ UNCHANGED <<X_paths, Y_paths, X, Y, X_2d, X_paths_2d, Y_2d, Y_paths_2d,
                   splitResultVars, train_calls, artifacts, stdout, notScript>>

\* lines 47-69: the split of the indices, of the slices and of the names, and
\* the report of the counts
SplitData ==
    /\ pc = "split"
    /\ LET s == SplitIndices(Range(Len(X_2d)), VAL_PERCENT)
       IN  /\ ind_train' = s.ind_train
           /\ ind_val' = s.ind_val
           /\ X_val' = Pick(X_2d, s.ind_val)
           /\ Y_val' = Pick(Y_2d, s.ind_val)
           /\ X_trn' = Pick(X_2d, s.ind_train)
           /\ Y_trn' = Pick(Y_2d, s.ind_train)
           /\ X_trn_paths' = Pick(X_paths_2d[1], s.ind_train)
           /\ X_val_paths' = Pick(X_paths_2d[1], s.ind_val)
           /\ stdout' = stdout \o << <<"number of images", Len(X)>>,
                                     <<"training", Len(s.ind_train)>>,
                                     <<"validation", Len(s.ind_val)>> >>
    /\ pc' = "train"
    /\ UNCHANGED <<X_paths, Y_paths, X, Y, X_2d, X_paths_2d, Y_2d, Y_paths_2d,
                   train_calls, artifacts, notScript>>

\* lines 71-90: the one call of the external trainer, which saves the model
\* under model_name
Train ==
    /\ pc = "train"
    /\ train_calls' = Append(train_calls,
            [train_data |-> X_trn, train_labels |-> Y_trn,
             train_files |-> X_trn_paths, test_data |-> X_val,
             test_labels |-> Y_val, test_files |-> X_val_paths,
             model_name |-> SAVE_NAME])
    /\ artifacts' = artifacts \cup {SAVE_NAME}
    /\ pc' = "done"
    /\ UNCHANGED <<X_paths, Y_paths, X, Y, X_2d, X_paths_2d, Y_2d, Y_paths_2d,
                   splitResultVars, stdout, notScript>>


-----------------------------------------------------------------------------
(* convert_2d called on its own *)

\* identifiers convert_2d may be given: with and without a suffix, with a
\* directory part, with a dot in the directory, a hidden file
NamePool ==
    << <<"a", ".", "t", "i", "f">>,
       <<"x", ".", "y", "/", "b", ".", "c", ".", "t", "i", "f">>,
       <<"d", "/", "e">>,
       <<"d", "/", ".", "h">> >>

SliceCounts == (1..MaxSlices) \cup {DeepSlices}

ConvertInit ==
    /\ \E n \in 0..MaxVols :
         /\ \E c \in [1..n -> SliceCounts] : images_array = Volumes(c)
         /\ \/ images_names = None
            \/ \E s \in [1..n -> 1..Len(NamePool)] :
                 images_names = Some([k \in 1..n |-> NamePool[s[k]]])
    /\ dtype \in {"float32", "uint16"}
    /\ converted = None

\* one call convert_2d(images_array, images_names, dtype)
CallConvert2d ==
    /\ converted = None
    /\ converted' = Some(convert_2d(images_array, images_names, dtype))
    /\ UNCHANGED <<images_array, images_names, dtype, notConvert>>

-----------------------------------------------------------------------------
(* the split rule applied to an index range and a fraction *)

\* validation fractions in (0, 1], as numerator and denominator
Fractions ==
    {<<1, 10>>, <<1, 4>>, <<1, 3>>, <<1, 2>>, <<2, 3>>, <<8, 10>>, <<9, 10>>, <<1, 1>>}

SplitInit ==
    /\ \E n \in 0..MaxLen : ind = Range(n)
    /\ fraction \in Fractions
    /\ split_out = None

\* lines 48-49 for the range ind and the fraction
ComputeSplit ==
    /\ split_out = None
    /\ split_out' = Some(SplitIndices(ind, fraction))
    /\ UNCHANGED <<ind, fraction, notSplit>>

-----------------------------------------------------------------------------
(* plots.py *)

DARK_MODE == FALSE
\* COLORMAP = COLORMAP_DARK if DARK_MODE else COLORMAP_LIGHT
COLORMAP == IF DARK_MODE THEN "COLORMAP_DARK" ELSE "COLORMAP_LIGHT"

\* get_style_context() on the library's global style rc: sns.set_palette
\* changes the global palette at once; the context manager returned is
\* plt.style.context("dark_background") or contextlib.nullcontext()
get_style_context(rc) ==
    [rc |-> [rc EXCEPT !.palette = COLORMAP],
     ctx |-> IF DARK_MODE THEN "dark_background" ELSE "nullcontext"]

\* the global style after `with get_style_context(): sns.set_palette(COLORMAP);
\* ...` has been left, by return or by an exception: a style context puts
\* back the style it found on entry, a null context puts back nothing
StyleAfterWith(rc) ==
    LET g == get_style_context(rc)
        entered == IF g.ctx = "dark_background"
                   THEN [g.rc EXCEPT !.background = "dark_background"]
                   ELSE g.rc
        body == [entered EXCEPT !.palette = COLORMAP]
    IN  IF g.ctx = "dark_background" THEN g.rc ELSE body

\* the number of 1s in a binary map
RECURSIVE Ones(_)
Ones(m) == IF m = <<>> THEN 0 ELSE m[Len(m)] + Ones(SubSeq(m, 1, Len(m) - 1))
\* the overlap of two binary maps
Both(a, b) == [p \in 1..Len(a) |-> a[p] * b[p]]

\* the scalar metrics of utils, each as the pair <<numerator, denominator>>
\* of its quotient
dice_coeff(y_true, y_pred) ==
    <<2 * Ones(Both(y_true, y_pred)), Ones(y_true) + Ones(y_pred)>>
intersection_over_union(y_true, y_pred) ==
    <<Ones(Both(y_true, y_pred)),
      Ones(y_true) + Ones(y_pred) - Ones(Both(y_true, y_pred))>>
precision(y_true, y_pred) == <<Ones(Both(y_true, y_pred)), Ones(y_pred)>>
recall(y_true, y_pred) == <<Ones(Both(y_true, y_pred)), Ones(y_true)>>

\* a < b for two quotients with positive denominators
ScoreLess(a, b) == a[1] * b[2] < b[1] * a[2]

\* the Python indices of the greatest elements of a non-empty sequence
MaxIndices(scores) ==
    {i \in 0..(Len(scores) - 1) :
        \A k \in 1..Len(scores) : ~ScoreLess(scores[i + 1], scores[k])}

\* an arg-max returning the last of several equal maxima
ArgMax_LastOnTies(scores) ==
    CHOOSE i \in MaxIndices(scores) : \A k \in MaxIndices(scores) : k <= i

\* np.argmax of a non-empty sequence (an empty one raises ValueError): the
\* index of the first occurrence of the maximum
ArgMax(scores) ==
    CHOOSE i \in MaxIndices(scores) : \A k \in MaxIndices(scores) : i <= k

\* np.where(image > threshold, 1, 0)
Binarize(image, threshold) ==
    [p \in 1..Len(image) |-> IF image[p] > threshold THEN 1 ELSE 0]

\* the sweep of lines 85-90 from Python index k on, appending to the four lists
RECURSIVE SweepFrom(_, _, _, _, _)
SweepFrom(image, gt, threshold_range, k, acc) ==
    IF k >= Len(threshold_range) THEN acc
    ELSE LET pred == Binarize(image, threshold_range[k + 1])
         IN  SweepFrom(image, gt, threshold_range, k + 1,
                [dice_scores |-> Append(acc.dice_scores, dice_coeff(gt, pred)),
                 iou_scores |->
                    Append(acc.iou_scores, intersection_over_union(gt, pred)),
                 precision_scores |->
                    Append(acc.precision_scores, precision(gt, pred)),
                 recall_scores |-> Append(acc.recall_scores, recall(gt, pred))])
Sweep(image, gt, threshold_range) ==
    SweepFrom(image, gt, threshold_range, 0,
        [dice_scores |-> <<>>, iou_scores |-> <<>>,
         precision_scores |-> <<>>, recall_scores |-> <<>>])

\* thresholds and pixel values are counted in steps of 0.025
\* np.arange(0, 1, 0.025)
DefaultThresholdRange == [k \in 1..40 |-> k - 1]
\* the threshold sequence the sweep runs over (lines 78-79)
EffectiveRange(threshold_range) ==
    IF threshold_range = None THEN DefaultThresholdRange ELSE threshold_range[1]

ThresholdLevels == {0, 10, 20}
PixelLevels == {5, 15, 40}
SeqsUpTo(S, n) == UNION {[1..m -> S] : m \in 0..n}
\* the matching-statistics records of one model over n thresholds
StatsOf(n) == [k \in 1..n |-> [thresh |-> 4 * k, f1 |-> k]]
\* the thresholds 0.1, 0.2, ... of a matching sweep
TausOf(n) == [k \in 1..n |-> 4 * k]

NoImage == <<>>
SemanticCalls ==
    {[fn |-> "plot_model_performance_semantic", image |-> im, gt |-> g,
      threshold_range |-> tr, taus |-> <<>>, stats_list |-> <<>>] :
        im \in [1..NPix -> PixelLevels],
        g \in [1..NPix -> {0, 1}] \ {[p \in 1..NPix |-> 0]},
        tr \in {None} \cup {Some(t) : t \in SeqsUpTo(ThresholdLevels, MaxSweep)}}
PerformanceCalls ==
    {[fn |-> "plot_performance", image |-> NoImage, gt |-> NoImage,
      threshold_range |-> None, taus |-> TausOf(m), stats_list |-> <<StatsOf(n)>>] :
        m \in 0..MaxSweep, n \in 1..MaxSweep}
ComparisonCalls ==
    {[fn |-> "plot_stat_comparison", image |-> NoImage, gt |-> NoImage,
      threshold_range |-> None, taus |-> TausOf(m),
      stats_list |-> [i \in 1..Len(c) |-> StatsOf(c[i])]] :
        m \in 0..MaxSweep,
        c \in UNION {[1..k -> 1..MaxSweep] : k \in 1..MaxModels}}

\* one call of a plotting function is about to be made, in any style the
\* session may have set before
PlotInit ==
    /\ palette \in {"default", "deep", COLORMAP}
    /\ background \in {"default", "dark_background"}
    /\ call \in SemanticCalls \cup PerformanceCalls \cup ComparisonCalls
    /\ outcome = "pending"
    /\ returned = None
    /\ marker = None

\* plot_model_performance_semantic with a non-empty sweep: the scores, the
\* marker at the arg-max of Dice, the four lists returned
SemanticReturns ==
    /\ outcome = "pending"
    /\ call.fn = "plot_model_performance_semantic"
    /\ LET threshold_range == EffectiveRange(call.threshold_range)
           scores == Sweep(call.image, call.gt, threshold_range)
       IN  /\ threshold_range # <<>>
           /\ marker' = Some(threshold_range[ArgMax(scores.dice_scores) + 1])
           /\ returned' = Some(scores)
    /\ outcome' = "returned"
    /\ UNCHANGED <<palette, background, call, notPlot>>

\* plot_model_performance_semantic with an empty sweep: np.argmax of the
\* empty Dice list raises ValueError at line 97
SemanticRaises ==
    /\ outcome = "pending"
    /\ call.fn = "plot_model_performance_semantic"
    /\ EffectiveRange(call.threshold_range) = <<>>
    /\ outcome' = "raised"
    /\ UNCHANGED <<palette, background, call, returned, marker, notPlot>>

\* plot_performance: taus is never read; the statistics are drawn and the
\* figure is returned
PlotPerformance ==
    /\ outcome = "pending"
    /\ call.fn = "plot_performance"
    /\ LET rc == StyleAfterWith([palette |-> palette, background |-> background])
       IN  palette' = rc.palette /\ background' = rc.background
    /\ outcome' = "returned"
    /\ UNCHANGED <<call, returned, marker, notPlot>>

\* sns.lineplot(data=stats, x=taus, ...) raises ValueError when the vector
\* taus and the table stats differ in length
LineplotAccepts(taus, stats) == Len(taus) = Len(stats)

\* plot_stat_comparison when every lineplot call accepts taus
PlotStatComparison ==
    /\ outcome = "pending"
    /\ call.fn = "plot_stat_comparison"
    /\ \A i \in 1..Len(call.stats_list) : LineplotAccepts(call.taus, call.stats_list[i])
    /\ LET rc == StyleAfterWith([palette |-> palette, background |-> background])
       IN  palette' = rc.palette /\ background' = rc.background
    /\ outcome' = "returned"
    /\ UNCHANGED <<call, returned, marker, notPlot>>

\* plot_stat_comparison when a lineplot call raises: the with block is left
\* by the exception
PlotStatComparisonRaises ==
    /\ outcome = "pending"
    /\ call.fn = "plot_stat_comparison"
    /\ \E i \in 1..Len(call.stats_list) : ~LineplotAccepts(call.taus, call.stats_list[i])
    /\ LET rc == StyleAfterWith([palette |-> palette, background |-> background])
       IN  palette' = rc.palette /\ background' = rc.background
    /\ outcome' = "raised"
    /\ UNCHANGED <<call, returned, marker, notPlot>>

-----------------------------------------------------------------------------
(* Specifications: each program on its own, the other programs' state idle *)

ScriptIdle ==
    /\ pc = "idle" /\ X_paths = <<>> /\ Y_paths = <<>> /\ X = <<>> /\ Y = <<>>
    /\ X_2d = <<>> /\ X_paths_2d = None /\ Y_2d = <<>> /\ Y_paths_2d = None
    /\ ind_train = <<>> /\ ind_val = <<>>
    /\ X_trn = <<>> /\ Y_trn = <<>> /\ X_val = <<>> /\ Y_val = <<>>
    /\ X_trn_paths = <<>> /\ X_val_paths = <<>>
    /\ train_calls = <<>> /\ artifacts = {} /\ stdout = <<>>
ConvertIdle ==
    images_array = <<>> /\ images_names = None /\ dtype = "float32" /\ converted = None
SplitIdle == ind = <<>> /\ fraction = <<1, 1>> /\ split_out = None
PlotIdle ==
    /\ palette = "default" /\ background = "default"
    /\ call = [fn |-> "none", image |-> NoImage, gt |-> NoImage,
               threshold_range |-> None, taus |-> <<>>, stats_list |-> <<>>]
    /\ outcome = "none" /\ returned = None /\ marker = None

\* the training script
Init == ScriptInit /\ ConvertIdle /\ SplitIdle /\ PlotIdle
Next == Convert \/ AssertPass \/ AssertFail \/ SplitData \/ Train
Spec == Init /\ [][Next]_vars

\* convert_2d on its own
ConvertSpecInit == ConvertInit /\ ScriptIdle /\ SplitIdle /\ PlotIdle
ConvertSpecNext == CallConvert2d
ConvertSpec == ConvertSpecInit /\ [][ConvertSpecNext]_vars

\* the split rule on its own
SplitSpecInit == SplitInit /\ ScriptIdle /\ ConvertIdle /\ PlotIdle
SplitSpecNext == ComputeSplit
SplitSpec == SplitSpecInit /\ [][SplitSpecNext]_vars

\* one call of a plotting function
PlotSpecInit == PlotInit /\ ScriptIdle /\ ConvertIdle /\ SplitIdle
PlotSpecNext ==
    \/ SemanticReturns \/ SemanticRaises \/ PlotPerformance
    \/ PlotStatComparison \/ PlotStatComparisonRaises
PlotSpec == PlotSpecInit /\ [][PlotSpecNext]_vars

-----------------------------------------------------------------------------
(* What the properties speak about *)

\* the number of slices in the first i volumes
RECURSIVE SlicesBefore(_, _)
SlicesBefore(vols, i) == IF i = 0 THEN 0 ELSE SlicesBefore(vols, i - 1) + Len(vols[i])
TotalSlices(vols) == SlicesBefore(vols, Len(vols))
\* the slice counts of the volumes, in order
Counts(vols) == [i \in 1..Len(vols) |-> Len(vols[i])]
\* the (volume, slice) pair, as TLA+ indices, of flattened position k in 1..TotalSlices
OriginOf(vols, k) ==
    LET i == CHOOSE v \in 1..Len(vols) :
                 SlicesBefore(vols, v - 1) < k /\ k <= SlicesBefore(vols, v)
    IN  <<i, k - SlicesBefore(vols, i - 1)>>
\* the identifier {stem}_{slice index} of slice j (TLA+ index) of the volume named p
StemIndex(p, j) == PathStem(p) \o <<"_">> \o IntStr(j - 1)
TifSuffix == <<".", "t", "i", "f">>
\* the elements of a sequence
Elems(q) == {q[k] : k \in 1..Len(q)}
\* the split report has been printed
SplitReported == \E k \in 1..Len(stdout) : stdout[k][1] = "training"

-----------------------------------------------------------------------------
(* Properties of the split rule (SplitSpec) *)

\* C1: for every index range of length L >= 1 and every fraction f in (0,1],
\* with n_val = max(1, round(f*L)), validation has n_val elements, train has
\* L - n_val, the two are disjoint, and train followed by validation is the
\* range itself; L=10, f=0.8 gives 2 and 8, L=1, f=0.8 gives 0 and 1.
C1_SplitPartition ==
    (split_out # None /\ Len(ind) >= 1) =>
        LET s == split_out[1]
            L == Len(ind)
            n_val == Max(1, PyRound(fraction[1] * L, fraction[2]))
        IN  /\ Len(s.ind_val) = n_val
            /\ Len(s.ind_train) = L - n_val
            /\ Elems(s.ind_train) \cap Elems(s.ind_val) = {}
            /\ s.ind_train \o s.ind_val = ind
            /\ (L = 10 /\ fraction = <<8, 10>>) =>
                    (Len(s.ind_train) = 2 /\ Len(s.ind_val) = 8)
            /\ (L = 1 /\ fraction = <<8, 10>>) =>
                    (s.ind_train = <<>> /\ s.ind_val = ind)
C1_Witness ==
    /\ split_out # None /\ Len(ind) = 10 /\ fraction = <<8, 10>>
    /\ split_out[1].ind_train = <<0, 1>>

-----------------------------------------------------------------------------
(* Properties of convert_2d (ConvertSpec) *)

\* C3: the output holds one element per slice of every volume, volume by
\* volume and slice by slice, each the slice cast to the target type; a
\* single volume V of n slices gives V[0], ..., V[n-1] cast, in that order.
C3_SliceOrder ==
    converted # None =>
        LET out == converted[1].images_2d
        IN  /\ Len(out) = TotalSlices(images_array)
            /\ \A i \in 1..Len(images_array) : \A j \in 1..Len(images_array[i]) :
                 out[SlicesBefore(images_array, i - 1) + j]
                     = AsType(images_array[i][j], dtype)
            /\ Len(images_array) = 1 =>
                 out = [j \in 1..Len(images_array[1]) |->
                            AsType(images_array[1][j], dtype)]
C3_Witness ==
    /\ converted # None /\ Len(images_array) = 2
    /\ Len(images_array[1]) = 2 /\ Len(images_array[2]) = DeepSlices
    /\ Len(converted[1].images_2d) = 2 + DeepSlices
    /\ dtype = "uint16" /\ converted[1].images_2d[1] # images_array[1][1]

\* C4 as stated: with identifiers given the identifier sequence is as long as
\* the slice sequence and every identifier is {source_stem}_{slice_index};
\* without identifiers no identifier sequence is produced.
C4_Original ==
    converted # None =>
        LET out == converted[1]
        IN  IF images_names = None THEN out.images_names_2d = None
            ELSE /\ out.images_names_2d # None
                 /\ Len(out.images_names_2d[1]) = Len(out.images_2d)
                 /\ \A k \in 1..Len(out.images_names_2d[1]) :
                      LET o == OriginOf(images_array, k)
                      IN  out.images_names_2d[1][k]
                              = StemIndex(images_names[1][o[1]], o[2])
\* C4 amended: every identifier is {source_stem}_{slice_index}.tif
C4_NamesWithSuffix ==
    converted # None =>
        LET out == converted[1]
        IN  IF images_names = None THEN out.images_names_2d = None
            ELSE /\ out.images_names_2d # None
                 /\ Len(out.images_names_2d[1]) = Len(out.images_2d)
                 /\ \A k \in 1..Len(out.images_names_2d[1]) :
                      LET o == OriginOf(images_array, k)
                      IN  out.images_names_2d[1][k]
                              = StemIndex(images_names[1][o[1]], o[2]) \o TifSuffix
C4_Witness ==
    /\ converted # None /\ images_names # None /\ Len(images_array) = 2
    /\ Len(images_array[2]) = DeepSlices
    /\ images_names[1][2] = NamePool[2]
    /\ converted[1].images_names_2d[1][Len(images_array[1]) + DeepSlices]
           = <<"b", ".", "c", "_", "1", "0", ".", "t", "i", "f">>

-----------------------------------------------------------------------------
(* Properties of the training script (Spec) *)

\* C2 as stated: the validation subset is never empty, and it is the full
\* input only when L <= 1.
C2_Original ==
    pc \in {"train", "done"} =>
        /\ ind_val # <<>>
        /\ Len(X_2d) > 1 => ind_val # Range(Len(X_2d))
\* C2 amended: the validation subset is never empty for L >= 1 (for L = 0 both
\* subsets are empty), and it is the full input only when L <= 2: for every
\* L >= 3 the train subset keeps at least one element.
C2_ValidationBounds ==
    pc \in {"train", "done"} =>
        LET L == Len(X_2d)
        IN  /\ L >= 1 => ind_val # <<>>
            /\ L = 0 => (ind_val = <<>> /\ ind_train = <<>>)
            /\ L >= 3 => (ind_val # Range(L) /\ ind_train # <<>>)
            /\ L \in {1, 2} => (ind_val = Range(L) /\ ind_train = <<>>)
C2_Witness ==
    pc = "done" /\ Len(X_2d) = 3 /\ ind_train = <<0>> /\ ind_val = <<1, 2>>

\* C5: when images and labels have the same number of volumes and the same
\* slice count in each pair, the two flattened sequences are equally long,
\* position k of each comes from the same (volume, slice), and the
\* identifiers at position k name that volume and slice.
C5_PairedAlignment ==
    (pc # "convert" /\ Counts(X) = Counts(Y)) =>
        /\ Len(X_2d) = Len(Y_2d)
        /\ Len(X_paths_2d[1]) = Len(X_2d) /\ Len(Y_paths_2d[1]) = Len(Y_2d)
        /\ \A k \in 1..Len(X_2d) :
             LET o == OriginOf(X, k)
             IN  /\ X_2d[k] = AsType(X[o[1]][o[2]], "float32")
                 /\ Y_2d[k] = AsType(Y[o[1]][o[2]], "uint16")
                 /\ X_2d[k][1] = Y_2d[k][1]
                 /\ X_paths_2d[1][k] = StemIndex(X_paths[o[1]], o[2]) \o TifSuffix
                 /\ Y_paths_2d[1][k] = StemIndex(Y_paths[o[1]], o[2]) \o TifSuffix
C5_Witness ==
    /\ pc = "assert" /\ Counts(X) = <<2, 3>> /\ Counts(Y) = <<2, 3>>
    /\ Len(X_2d) = 5 /\ X_2d[3][1] = Tag(1, 0) /\ Y_2d[3][1] = Tag(1, 0)

\* C6: a run whose flattened counts differ halts at the assertion, never
\* computes the split, never calls the trainer and writes no artifact; a run
\* whose counts are equal goes through the split to exactly one training
\* call: it is never halted, it can always take its next step until it is
\* done, and when done it has reported the split and called the trainer once.
C6_AssertGatesTraining ==
    /\ Len(X_2d) # Len(Y_2d) =>
            /\ pc \in {"assert", "halted"}
            /\ ~SplitReported /\ ind_train = <<>> /\ ind_val = <<>>
            /\ train_calls = <<>> /\ artifacts = {}
            /\ pc = "assert" => ENABLED AssertFail
    /\ pc = "halted" => (Len(X_2d) # Len(Y_2d) /\ ~ENABLED Next)
    /\ (pc # "convert" /\ Len(X_2d) = Len(Y_2d)) =>
            /\ pc \in {"assert", "split", "train", "done"}
            /\ pc = "assert" => (ENABLED AssertPass /\ ~ENABLED AssertFail)
            /\ pc = "split" => ENABLED SplitData
            /\ pc = "train" => (ENABLED Train /\ SplitReported)
            /\ pc # "done" => (train_calls = <<>> /\ artifacts = {})
            /\ pc = "done" => /\ SplitReported
                              /\ Len(train_calls) = 1
                              /\ artifacts = {SAVE_NAME}
                              /\ ~ENABLED Next
C6_Witness ==
    pc = "halted" /\ Len(X) = Len(Y) /\ Len(X_2d) = Len(Y_2d) + 1

\* C10: when the per-volume slice counts of images and labels differ, a run
\* that reaches the trainer (the totals are equal, the assertion passes)
\* hands it at least one position whose image slice and label slice come
\* from different (volume, slice) pairs.
C10_SilentMisalignment ==
    (pc = "done" /\ Counts(X) # Counts(Y)) =>
        LET c == train_calls[1]
        IN  \/ \E k \in 1..Len(c.train_data) :
                 c.train_data[k][1] # c.train_labels[k][1]
            \/ \E k \in 1..Len(c.test_data) :
                 c.test_data[k][1] # c.test_labels[k][1]
C10_Witness ==
    /\ pc = "done" /\ Counts(X) = <<1, 2>> /\ Counts(Y) = <<2, 1>>
    /\ train_calls[1].test_data[1][1] = Tag(1, 0)
    /\ train_calls[1].test_labels[1][1] = Tag(0, 1)

-----------------------------------------------------------------------------
(* Properties of the plotting functions (PlotSpec) *)

\* the threshold sequence a call was given
GivenThresholds ==
    IF call.fn = "plot_model_performance_semantic"
    THEN EffectiveRange(call.threshold_range)
    ELSE call.taus
\* the record collection of a call fits its thresholds
WellFormedRecords ==
    call.fn = "plot_stat_comparison" =>
        \A i \in 1..Len(call.stats_list) : Len(call.stats_list[i]) = Len(call.taus)

\* C7: for a non-empty sweep the marked threshold is a threshold of the sweep
\* whose Dice score is the greatest of the sweep, the one of lowest index
\* among equal maxima; each returned list holds one score per threshold, in
\* the order of the thresholds.
C7_OptimalThreshold ==
    (call.fn = "plot_model_performance_semantic" /\ outcome = "returned") =>
        LET thr == EffectiveRange(call.threshold_range)
            r == returned[1]
        IN  /\ thr # <<>>
            /\ Len(r.dice_scores) = Len(thr) /\ Len(r.iou_scores) = Len(thr)
            /\ Len(r.precision_scores) = Len(thr) /\ Len(r.recall_scores) = Len(thr)
            /\ \A k \in 1..Len(thr) :
                 LET pred == Binarize(call.image, thr[k])
                 IN  /\ r.dice_scores[k] = dice_coeff(call.gt, pred)
                     /\ r.iou_scores[k] = intersection_over_union(call.gt, pred)
                     /\ r.precision_scores[k] = precision(call.gt, pred)
                     /\ r.recall_scores[k] = recall(call.gt, pred)
            /\ \E i \in 1..Len(thr) :
                 /\ marker = Some(thr[i])
                 /\ \A k \in 1..Len(thr) :
                      ~ScoreLess(r.dice_scores[i], r.dice_scores[k])
                 /\ \A k \in 1..(i - 1) :
                      ScoreLess(r.dice_scores[k], r.dice_scores[i])
C7_Witness ==
    /\ call.fn = "plot_model_performance_semantic" /\ outcome = "returned"
    /\ call.threshold_range = Some(<<10, 0>>)
    /\ returned[1].dice_scores = <<<<4, 4>>, <<4, 4>>>>
    /\ marker = Some(10)

\* C8: a rendering function returns when its records are well formed and its
\* threshold sequence is not empty, and raises when its threshold sequence
\* is empty.
C8_EmptyThresholdsRaise ==
    outcome \in {"returned", "raised"} =>
        /\ GivenThresholds = <<>> => outcome = "raised"
        /\ (GivenThresholds # <<>> /\ WellFormedRecords) => outcome = "returned"

\* C9: a call of plot_performance or plot_stat_comparison leaves the global
\* style, the active palette included, as it found it.
C9_StyleRestored ==
    [][(call.fn \in {"plot_performance", "plot_stat_comparison"}
            /\ outcome = "pending" /\ outcome' # "pending")
        => (palette' = palette /\ background' = background)]_vars

====
